---- MODULE Spec2Model ----
(***************************************************************************)
(* Model of the transaction cache of elrond-go-storage:                    *)
(*   - txListForSender (the sorted list of one sender's transactions),     *)
(*     specification Spec: its operations run one at a time, each under    *)
(*     the list's mutex;                                                   *)
(*   - txListBySenderMap (the registry of the lists, by sender),           *)
(*     specification SpecMap: goroutines interleave at every access of the *)
(*     backing map, the counter and the registry mutex.                    *)
(***************************************************************************)
EXTENDS Integers, Sequences, FiniteSets, Bags, TLC

\* ---------------------------------------------------------------- bounds

\* Transactions 1..NumTxs are the transactions the callers hold.
NumTxs == 3
\* list.Element allocations (PushBack / InsertBefore) of one run.
MaxElems == 3
\* RemoveHighNonceTxs is called with count in 0..MaxCount.
MaxCount == 2
\* copyBatchTo is called with batchSize and len(destination) in 0..MaxBatch.
MaxBatch == 2

TxPool == 1 .. NumTxs

Min2(a, b) == IF a <= b THEN a ELSE b

\* ------------------------------------------------- transactions (inputs)

\* tx.GetNonce(): transactions 2 and 3 share a nonce, 4 and 5 the next.
GetNonce(tx) == (tx \div 2) + 1

\* The hash of a transaction is unique per transaction; 0 is the nil slice.
TxHash(tx) == tx
NilHash == 0

\* The cost estimates are pure functions of the transaction. The fees are
\* 1, 6, 9, 10, ... so that the fee per gas differs between transactions.
estimateTxSize(tx) == 100 + tx
estimateTxGas(tx) == 10
estimateTxFee(tx) == (8 * tx - tx * tx) - 6

\* tx.GetSndAddr(): odd transactions are alice's, even ones bob's.
Senders == {"alice", "bob"}
GetSndAddr(tx) == IF tx % 2 = 1 THEN "alice" ELSE "bob"

\* ------------------------------------------------------- container/list

\* A *list.Element: its identity (id) and its Value (tx). The nil element.
NilElem == [id |-> 0, tx |-> 0]

\* The position of element e in the list, 0 when e.list is not this list.
IndexOf(its, e) ==
    LET hits == {i \in 1 .. Len(its) : its[i].id = e.id}
    IN IF hits = {} THEN 0 ELSE CHOOSE i \in hits : TRUE

Front(its) == IF Len(its) = 0 THEN NilElem ELSE its[1]

\* Back() taken for Front(): the eviction would start at the lowest nonce.
Back_asFront(its) == IF Len(its) = 0 THEN NilElem ELSE its[1]

Back(its) == IF Len(its) = 0 THEN NilElem ELSE its[Len(its)]

\* e.Next(): nil for the last element and for an element removed from the list.
NextElem(its, e) ==
    LET i == IndexOf(its, e)
    IN IF i = 0 \/ i = Len(its) THEN NilElem ELSE its[i + 1]

\* e.Prev()
PrevElem(its, e) ==
    LET i == IndexOf(its, e)
    IN IF i <= 1 THEN NilElem ELSE its[i - 1]

PushBack(its, e) == Append(its, e)

InsertBefore(its, e, mark) ==
    LET i == IndexOf(its, mark)
    IN IF i = 0 THEN its
       ELSE SubSeq(its, 1, i - 1) \o <<e>> \o SubSeq(its, i, Len(its))

\* l.Remove(e): e keeps its Value and loses its links.
Remove(its, e) ==
    LET i == IndexOf(its, e)
    IN IF i = 0 THEN its
       ELSE SubSeq(its, 1, i - 1) \o SubSeq(its, i + 1, Len(its))

\* ------------------------------------------------------ txListForSender

VARIABLES
    items,           \* listForSender.items, front to back
    copyBatchIndex,  \* listForSender.copyBatchIndex
    totals,          \* totalBytes, totalGas, totalFee
    nextElem,        \* the identity of the next allocated list.Element
    last,            \* the last call: its arguments and its result
    prev,            \* the list as it was when the last call started
    sweep,           \* what copyBatchTo returned since the last reset
    scenario         \* how many calls of Scenario the calls so far are, -1
                     \* when they are not its beginning

listVars == <<items, copyBatchIndex, totals, nextElem, last, prev, sweep, scenario>>

\* ---------------------------------------------------- txListBySenderMap

VARIABLES
    backingMap,  \* txMap.backingMap: per sender, its list and its score chunk
    lists,       \* the txListForSender objects created, by reference
    counter,     \* txMap.counter
    mutex,       \* txMap.mutex: TRUE when a goroutine holds it
    running,     \* the calls in progress, one per busy goroutine: the bag of
                 \* their places (pc) and locals
    calls,       \* the number of calls started
    hist,        \* what happened so far: see InitMap
    snapshot     \* the result of the last getSnapshotDescending

mapVars == <<backingMap, lists, counter, mutex, running, calls, hist, snapshot>>

ZeroTotals == [totalBytes |-> 0, totalGas |-> 0, totalFee |-> 0]

TxsOf(its) == [i \in 1 .. Len(its) |-> its[i].tx]

TxSetOf(its) == {its[i].tx : i \in 1 .. Len(its)}

RECURSIVE scanLargerNonce(_, _, _)
scanLargerNonce(its, element, nonce) ==
    IF element = NilElem THEN NilElem
    ELSE IF GetNonce(element.tx) > nonce THEN element
    ELSE scanLargerNonce(its, NextElem(its, element), nonce)

\* The comparison of findTxWithLargerNonce turned around.
RECURSIVE scanSmallerNonce(_, _, _)
scanSmallerNonce(its, element, nonce) ==
    IF element = NilElem THEN NilElem
    ELSE IF GetNonce(element.tx) < nonce THEN element
    ELSE scanSmallerNonce(its, NextElem(its, element), nonce)

findTxWithLargerNonce_smaller(its, nonce) == scanSmallerNonce(its, Front(its), nonce)

findTxWithLargerNonce(its, nonce) == scanLargerNonce(its, Front(its), nonce)

\* The insertion of AddTx: before the first entry of larger nonce, or at the
\* back.
sortedInsert(its, newNode) ==
    LET mark == findTxWithLargerNonce(its, GetNonce(newNode.tx))
    IN IF mark = NilElem THEN PushBack(its, newNode)
       ELSE InsertBefore(its, newNode, mark)

onAddedTransaction(tot, tx) ==
    [totalBytes |-> tot.totalBytes + estimateTxSize(tx),
     totalGas |-> tot.totalGas + estimateTxGas(tx),
     totalFee |-> tot.totalFee + estimateTxFee(tx)]

\* The third line subtracts the fee from totalGas; totalFee is left alone.
onRemovedListElement(tot, element) ==
    [totalBytes |-> tot.totalBytes - estimateTxSize(element.tx),
     totalGas |-> (tot.totalGas - estimateTxGas(element.tx)) - estimateTxFee(element.tx),
     totalFee |-> tot.totalFee]

RECURSIVE scanForTx(_, _, _)
scanForTx(its, element, txToFind) ==
    IF element = NilElem THEN NilElem
    ELSE IF element.tx = txToFind THEN element
    ELSE IF GetNonce(element.tx) > GetNonce(txToFind) THEN NilElem
    ELSE scanForTx(its, NextElem(its, element), txToFind)

\* findListElementWithTx matching the nonce instead of the transaction.
RECURSIVE scanForNonce(_, _, _)
scanForNonce(its, element, txToFind) ==
    IF element = NilElem THEN NilElem
    ELSE IF GetNonce(element.tx) = GetNonce(txToFind) THEN element
    ELSE IF GetNonce(element.tx) > GetNonce(txToFind) THEN NilElem
    ELSE scanForNonce(its, NextElem(its, element), txToFind)

findListElementWithTx_byNonce(its, txToFind) == scanForNonce(its, Front(its), txToFind)

\* findListElementWithTx giving up at the first entry of the same nonce
\* that is not the transaction, instead of at a greater nonce.
RECURSIVE scanUpToNonce(_, _, _)
scanUpToNonce(its, element, txToFind) ==
    IF element = NilElem THEN NilElem
    ELSE IF element.tx = txToFind THEN element
    ELSE IF GetNonce(element.tx) >= GetNonce(txToFind) THEN NilElem
    ELSE scanUpToNonce(its, NextElem(its, element), txToFind)

findListElementWithTx_stopAtEqual(its, txToFind) == scanUpToNonce(its, Front(its), txToFind)

findListElementWithTx(its, txToFind) == scanForTx(its, Front(its), txToFind)

countTx(its) == Len(its)

\* IsEmpty() answering false for every list.
IsEmpty_never(its) == FALSE

IsEmpty(its) == countTx(its) = 0

\* The loop of RemoveHighNonceTxs: the list left and the elements removed,
\* in removal order.
RECURSIVE removeLoop(_, _, _, _)
removeLoop(its, element, count, index) ==
    IF element = NilElem \/ ~(count > index)
    THEN [items |-> its, removed |-> <<>>]
    ELSE LET previous == PrevElem(its, element)
             rest == removeLoop(Remove(its, element), previous, count, index + 1)
         IN [items |-> rest.items, removed |-> <<element>> \o rest.removed]

RECURSIVE subtractAll(_, _)
subtractAll(tot, removed) ==
    IF removed = <<>> THEN tot
    ELSE subtractAll(onRemovedListElement(tot, Head(removed)), Tail(removed))

\* removedTxHashes := make([][]byte, count), filled from index 0.
removedTxHashes(removed, count) ==
    [i \in 1 .. count |-> IF i <= Len(removed) THEN TxHash(removed[i].tx) ELSE NilHash]

\* copyBatchTo saving element.Next() once more when the batch is full: the
\* entry at each batch boundary would be skipped.
RECURSIVE copyLoop_skip(_, _, _, _, _)
copyLoop_skip(its, element, copied, batchSize, availableSpace) ==
    IF element = NilElem \/ copied = batchSize \/ copied = availableSpace
    THEN [element |-> NextElem(its, element), batch |-> <<>>]
    ELSE LET rest == copyLoop_skip(its, NextElem(its, element), copied + 1,
                                   batchSize, availableSpace)
         IN [element |-> rest.element, batch |-> <<element.tx>> \o rest.batch]

\* The loop of copyBatchTo: the element it stops at and the batch copied.
RECURSIVE copyLoop(_, _, _, _, _)
copyLoop(its, element, copied, batchSize, availableSpace) ==
    IF element = NilElem \/ copied = batchSize \/ copied = availableSpace
    THEN [element |-> element, batch |-> <<>>]
    ELSE LET rest == copyLoop(its, NextElem(its, element), copied + 1,
                              batchSize, availableSpace)
         IN [element |-> rest.element, batch |-> <<element.tx>> \o rest.batch]

\* The result of getTxHashes: the hashes, front to back, in reverse.
hashesOf_reversed(its) == [i \in 1 .. Len(its) |-> TxHash(its[Len(its) + 1 - i].tx)]

\* The result of getTxHashes: the hashes, front to back.
hashesOf(its) == [i \in 1 .. Len(its) |-> TxHash(its[i].tx)]

\* notifyAccountNonce (section 4.1): the entries that are stale, of a nonce
\* up to the account's, in list order, and the entries that stay.
IsStale(element, nonce) == GetNonce(element.tx) <= nonce

staleElements(its, nonce) == SelectSeq(its, LAMBDA e : IsStale(e, nonce))

pruneStale(its, nonce) == SelectSeq(its, LAMBDA e : ~IsStale(e, nonce))

\* The example of section 8: nonces 3, 1, 2 arrive in that order (the
\* transactions 4, 1, 2), then GetTxHashes, RemoveHighNonceTxs(1) and
\* NotifyAccountNonce(2).
Scenario ==
    <<[op |-> "AddTx", arg |-> 4], [op |-> "AddTx", arg |-> 1],
      [op |-> "AddTx", arg |-> 2], [op |-> "getTxHashes", arg |-> 0],
      [op |-> "RemoveHighNonceTxs", arg |-> 1],
      [op |-> "NotifyAccountNonce", arg |-> 2]>>

\* The place in the scenario after the call op(arg).
advance(at, op, arg) ==
    IF at >= 0 /\ at < Len(Scenario) /\ Scenario[at + 1] = [op |-> op, arg |-> arg]
    THEN at + 1 ELSE -1

\* The last call: the operation, its transaction or count, and what it
\* returned (isFound, the removed hashes, the batch copied).
NoCall ==
    [op |-> "none", tx |-> 0, count |-> 0, isFound |-> FALSE, hashes |-> <<>>,
     batch |-> <<>>]

Snapshot == [items |-> items, totals |-> totals, copyBatchIndex |-> copyBatchIndex]

\* The sweep since the last copyBatchTo with reset: the batches returned,
\* concatenated; whether the list was mutated, and whether by an AddTx; and
\* whether the sweep is finished: the last call had room for an entry
\* (batchSize >= 1, len(destination) >= 1) and returned 0.
NoSweep ==
    [started |-> FALSE, copied |-> <<>>, mutated |-> FALSE, added |-> FALSE,
     finished |-> FALSE]

InitList ==
    /\ items = <<>>
    /\ copyBatchIndex = NilElem
    /\ totals = ZeroTotals
    /\ nextElem = 1
    /\ last = NoCall
    /\ prev = [items |-> <<>>, totals |-> ZeroTotals, copyBatchIndex |-> NilElem]
    /\ sweep = NoSweep
    /\ scenario = 0

\* AddTx(txHash, tx). The cache above the list keeps one entry per hash, so
\* a transaction that is in the list is not added again.
AddTx(tx) ==
    /\ nextElem <= MaxElems
    /\ tx \notin TxSetOf(items)
    /\ LET newNode == [id |-> nextElem, tx |-> tx]
       IN /\ items' = sortedInsert(items, newNode)
          /\ totals' = onAddedTransaction(totals, tx)
    /\ nextElem' = nextElem + 1
    /\ last' = [NoCall EXCEPT !.op = "AddTx", !.tx = tx]
    /\ prev' = Snapshot
    /\ sweep' = [sweep EXCEPT !.mutated = TRUE, !.added = TRUE, !.finished = FALSE]
    /\ scenario' = advance(scenario, "AddTx", tx)
    /\ UNCHANGED <<copyBatchIndex, mapVars>>

RemoveTx(tx) ==
    /\ LET marker == findListElementWithTx(items, tx)
           isFound == marker # NilElem
       IN /\ items' = IF isFound THEN Remove(items, marker) ELSE items
          /\ totals' = IF isFound THEN onRemovedListElement(totals, marker) ELSE totals
          /\ last' = [NoCall EXCEPT !.op = "RemoveTx", !.tx = tx, !.isFound = isFound]
          /\ sweep' = [sweep EXCEPT !.mutated = @ \/ isFound, !.finished = FALSE]
    /\ prev' = Snapshot
    /\ scenario' = advance(scenario, "RemoveTx", tx)
    /\ UNCHANGED <<copyBatchIndex, nextElem, mapVars>>

RemoveHighNonceTxs(count) ==
    /\ LET res == removeLoop(items, Back(items), count, 0)
       IN /\ items' = res.items
          /\ totals' = subtractAll(totals, res.removed)
          /\ last' = [NoCall EXCEPT !.op = "RemoveHighNonceTxs", !.count = count,
                                    !.hashes = removedTxHashes(res.removed, count)]
          /\ sweep' = [sweep EXCEPT !.mutated = @ \/ res.removed # <<>>,
                                     !.finished = FALSE]
    /\ prev' = Snapshot
    /\ scenario' = advance(scenario, "RemoveHighNonceTxs", count)
    /\ UNCHANGED <<copyBatchIndex, nextElem, mapVars>>

\* getTxHashes: the hashes of the list, front to back.
getTxHashes ==
    /\ last' = [NoCall EXCEPT !.op = "getTxHashes", !.hashes = hashesOf(items)]
    /\ prev' = Snapshot
    /\ scenario' = advance(scenario, "getTxHashes", 0)
    /\ UNCHANGED <<items, copyBatchIndex, totals, nextElem, sweep, mapVars>>

\* NotifyAccountNonce(nonce) (section 4.1): the stale entries are removed,
\* each as RemoveTx removes an entry.
NotifyAccountNonce(nonce) ==
    /\ LET stale == staleElements(items, nonce)
       IN /\ items' = pruneStale(items, nonce)
          /\ totals' = subtractAll(totals, stale)
          /\ sweep' = [sweep EXCEPT !.mutated = @ \/ stale # <<>>, !.finished = FALSE]
    /\ last' = [NoCall EXCEPT !.op = "NotifyAccountNonce", !.count = nonce]
    /\ prev' = Snapshot
    /\ scenario' = advance(scenario, "NotifyAccountNonce", nonce)
    /\ UNCHANGED <<copyBatchIndex, nextElem, mapVars>>

\* copyBatchTo(withReset, destination, destinationHashes, batchSize), with
\* len(destination) = len(destinationHashes) = availableSpace.
copyBatchTo(withReset, availableSpace, batchSize) ==
    /\ LET start == IF withReset THEN Front(items) ELSE copyBatchIndex
           res == IF start = NilElem
                  THEN [element |-> start, batch |-> <<>>]
                  ELSE copyLoop(items, start, 0, batchSize, availableSpace)
           finished == Len(res.batch) = 0 /\ batchSize >= 1 /\ availableSpace >= 1
       IN /\ copyBatchIndex' = res.element
          /\ last' = [NoCall EXCEPT !.op = "copyBatchTo", !.batch = res.batch]
          /\ sweep' = IF withReset
                      THEN [started |-> TRUE, copied |-> res.batch,
                            mutated |-> FALSE, added |-> FALSE,
                            finished |-> finished]
                      ELSE [sweep EXCEPT !.copied = @ \o res.batch,
                                         !.finished = finished]
    /\ prev' = Snapshot
    /\ scenario' = advance(scenario, "copyBatchTo", 0)
    /\ UNCHANGED <<items, totals, nextElem, mapVars>>

NextList ==
    \/ \E tx \in TxPool : AddTx(tx)
    \/ \E tx \in TxPool : RemoveTx(tx)
    \/ \E count \in 0 .. MaxCount : RemoveHighNonceTxs(count)
    \/ \E withReset \in BOOLEAN, availableSpace \in 0 .. MaxBatch,
          batchSize \in 0 .. MaxBatch :
          copyBatchTo(withReset, availableSpace, batchSize)

\* The list without the cursor, with one transaction more than NextList has,
\* so that three nonces occur, and with the account's nonce notified.
NoncePool == 1 .. NumTxs + 1

AccountNonces == 0 .. GetNonce(NumTxs + 1)

NextNonce ==
    \/ \E tx \in NoncePool : AddTx(tx)
    \/ \E tx \in NoncePool : RemoveTx(tx)
    \/ \E count \in 0 .. MaxCount : RemoveHighNonceTxs(count)
    \/ getTxHashes
    \/ \E nonce \in AccountNonces : NotifyAccountNonce(nonce)

\* ------------------------------------------------------------------------
\* txListBySenderMap. Goroutines 1..NumThreads call addTx, removeTx,
\* RemoveSendersBulk, clear and getSnapshotDescending; a call is a sequence
\* of steps, one per access of the backing map, the counter, the mutex or a
\* list (a list's own operation runs under the list's mutex, in one step).

\* Goroutines calling into the registry: at most NumThreads calls are in
\* progress at a time.
NumThreads == 2
\* Calls started in one run.
MaxCalls == 4

numberOfScoreChunks == 100

NoList == 0

NoEntry == [list |-> NoList, chunk |-> 0]

\* ---- the list, as the registry uses it (score and callback: sections 4.1)

\* The score: the fee per gas of the list, quantized, a pure function of the
\* running totals.
computeScore(tot) ==
    IF tot.totalGas <= 0 \/ tot.totalFee <= 0 THEN 0
    ELSE Min2((tot.totalFee * 100) \div tot.totalGas, numberOfScoreChunks - 1)

newTxListForSender(sender) ==
    [sender |-> sender, items |-> <<>>, totals |-> ZeroTotals, lastComputedScore |-> 0,
     copyBatchIndex |-> NilElem]

\* ---- maps.BucketSortedMap (section 4.2)

bsmGet(bm, sender) == bm[sender].list

bsmHas(bm, sender) == bm[sender].list # NoList

scoreChunkOf(score) == Min2(score, numberOfScoreChunks - 1)

bsmSet(bm, l, lst) ==
    [bm EXCEPT ![lst.sender] = [list |-> l, chunk |-> scoreChunkOf(lst.lastComputedScore)]]

bsmRemove(bm, sender) == [bm EXCEPT ![sender] = NoEntry]

bsmClear(bm) == [s \in Senders |-> NoEntry]

\* The entry is moved to the chunk of its score; the mapping of the sender
\* is not altered, and an entry that is not in the map is not put into it.
bsmNotifyScoreChange(bm, l, lst) ==
    IF bm[lst.sender].list = l
    THEN [bm EXCEPT ![lst.sender].chunk = scoreChunkOf(lst.lastComputedScore)]
    ELSE bm

LiveSenders(bm) == {s \in Senders : bsmHas(bm, s)}

\* The snapshots the map may return: every entry once, the chunks walked
\* from the highest score down, entries of one chunk in any order.
bsmGetSnapshotDescending(bm) ==
    LET live == LiveSenders(bm)
        n == Cardinality(live)
    IN {q \in [1 .. n -> live] :
           /\ \A i, j \in 1 .. n : i # j => q[i] # q[j]
           /\ \A i, j \in 1 .. n : i < j => bm[q[i]].chunk >= bm[q[j]].chunk}

\* ---- txListBySenderMap

\* getListForSender answering with the list of another sender when the
\* sender has none.
getListForSender_any(bm, sender) ==
    IF bsmHas(bm, sender) \/ LiveSenders(bm) = {} THEN bsmGet(bm, sender)
    ELSE bsmGet(bm, CHOOSE s \in LiveSenders(bm) : TRUE)

\* getListForSender finding no list, whatever the map holds.
getListForSender_miss(bm, sender) == NoList

getListForSender(bm, sender) == bsmGet(bm, sender)

\* The deferred txMap.mutex.Unlock() left out: the mutex stays as it is.
mutexUnlock_missing(held) == held

\* txMap.mutex.Unlock(): the mutex after it.
mutexUnlock(held) == FALSE

\* The second lookup of getOrAddListForSender left out: check, lock, create.
lockedLookup_skipped(bm, sender) == NoList

\* The second lookup of getOrAddListForSender, under txMap.mutex.
lockedLookup(bm, sender) == getListForSender(bm, sender)

\* A notifyScoreChange that does not reach the backing map.
notifyScoreChange_dropped(bm, l, lst) == bm

notifyScoreChange(bm, l, lst) == bsmNotifyScoreChange(bm, l, lst)

\* The score is recomputed after a mutation and, when it differs from
\* lastComputedScore, reported through the callback.
triggerScoreChange(bm, l, lst) ==
    LET score == computeScore(lst.totals)
        scored == [lst EXCEPT !.lastComputedScore = score]
    IN [list |-> scored,
        map |-> IF score # lst.lastComputedScore
                THEN notifyScoreChange(bm, l, scored) ELSE bm]

\* listForSender.AddTx(tx) on a list of the registry.
listAddTx(lst, tx) ==
    [lst EXCEPT !.items = sortedInsert(@, [id |-> tx, tx |-> tx]),
                !.totals = onAddedTransaction(@, tx)]

\* listForSender.RemoveTx(tx) on a list of the registry.
listRemoveTx(lst, tx) ==
    LET marker == findListElementWithTx(lst.items, tx)
    IN IF marker = NilElem THEN lst
       ELSE [lst EXCEPT !.items = Remove(@, marker),
                        !.totals = onRemovedListElement(@, marker)]

\* listForSender.notifyAccountNonce(nonce) on a list of the registry
\* (section 4.1).
listNotifyAccountNonce(lst, nonce) ==
    [lst EXCEPT !.items = pruneStale(@, nonce),
                !.totals = subtractAll(@, staleElements(lst.items, nonce))]

\* listForSender.copyBatchTo(withReset, destination, destinationHashes,
\* batchSize) on a list of the registry, the destination having room for its
\* availableSpace entries.
listCopyBatchTo(lst, withReset, availableSpace, batchSize) ==
    LET start == IF withReset THEN Front(lst.items) ELSE lst.copyBatchIndex
        res == IF start = NilElem
               THEN [element |-> start, batch |-> <<>>]
               ELSE copyLoop(lst.items, start, 0, batchSize, availableSpace)
    IN [lst EXCEPT !.copyBatchIndex = res.element]

\* A call in progress: the place it is at and its locals; whether the
\* backingMap.Remove of the removeSender it is in found the sender (took);
\* for a RemoveSendersBulk during which no other call ran so far (alone),
\* the backing map and the counter as they were when it started; whether it
\* holds the mutex of its list (locked); and, for a removeTx or a
\* notifyAccountNonce, whether its sender was not in the index when it
\* started (absent).
NewCall ==
    [pc |-> "", tx |-> 0, sender |-> "", list |-> NoList, senders |-> <<>>,
     i |-> 0, numRemoved |-> 0, took |-> FALSE, alone |-> FALSE,
     index0 |-> <<>>, counter0 |-> 0, locked |-> FALSE, absent |-> FALSE,
     nonce |-> 0, withReset |-> FALSE, batchSize |-> 0]

\* A removeTx or notifyAccountNonce that found no list for its sender and
\* returned: the sender, what removeTx returned, and the backing map, the
\* lists and the counter as they were when it started.
NoAbsent == [op |-> "none", sender |-> "", isFound |-> FALSE, before |-> <<>>]

\* A RemoveSendersBulk that returned: its senders, the backing map and the
\* counter as they were when it started, and the number it returned.
NoBulk == [returned |-> FALSE, senders |-> {}, index0 |-> <<>>, counter0 |-> 0,
           numRemoved |-> 0]

NoSnapshot == [taken |-> FALSE, order |-> <<>>, live |-> {}, scores |-> <<>>]

\* hist: the transactions passed to addTx (started); whether addTx and the
\* snapshot are the only calls made so far (onlyAdds); whether a lookup under
\* the mutex found a list the lookup before it had missed (recheckHit); the
\* pairs <<a, b>> of lists such that a score change took a from a chunk
\* above b's to a chunk below it (fell); when the last call that returned
\* is a RemoveSendersBulk during which no other call ran and no call started
\* since, that call (bulk); and likewise the removeTx or notifyAccountNonce
\* that found no list for its sender (absent).
InitMap ==
    /\ backingMap = [s \in Senders |-> NoEntry]
    /\ lists = <<>>
    /\ counter = 0
    /\ mutex = FALSE
    /\ running = EmptyBag
    /\ calls = 0
    /\ hist = [started |-> {}, onlyAdds |-> TRUE, recheckHit |-> FALSE, fell |-> {},
               bulk |-> NoBulk, absent |-> NoAbsent]
    /\ snapshot = NoSnapshot

Calls == BagToSet(running)

\* A call that no longer runs alone: another call starts.
Interrupted(c) == [c EXCEPT !.alone = FALSE, !.index0 = <<>>, !.counter0 = 0]

\* A goroutine starts a call and is at d after its first step.
Start(d) ==
    /\ BagCardinality(running) < NumThreads
    /\ calls < MaxCalls
    /\ calls' = calls + 1
    /\ running' = (IF \E c \in Calls : c.alone
                   THEN SetToBag({Interrupted(c) : c \in Calls})
                   ELSE running) (+) SetToBag({d})

\* A goroutine starts a call that returns within its first step.
StartAndReturn ==
    /\ BagCardinality(running) < NumThreads
    /\ calls < MaxCalls
    /\ calls' = calls + 1
    /\ running' = IF \E c \in Calls : c.alone
                  THEN SetToBag({Interrupted(c) : c \in Calls})
                  ELSE running

\* The goroutine running c takes a step to d.
Step(c, d) ==
    /\ running' = (running (-) SetToBag({c})) (+) SetToBag({d})
    /\ UNCHANGED calls

\* The call c returns.
Return(c) ==
    /\ running' = running (-) SetToBag({c})
    /\ UNCHANGED calls

\* hist.absent after a call that found no list for sender: the call is
\* recorded when no other call is in progress.
AbsentCall(op, sender) ==
    IF BagCardinality(running) = 0
    THEN [op |-> op, sender |-> sender, isFound |-> FALSE,
          before |-> <<backingMap, lists, counter>>]
    ELSE NoAbsent

\* addTx, to the first lookup of getOrAddListForSender. A transaction is
\* passed to addTx once: the cache keeps one entry per hash.
addTx(tx) ==
    /\ tx \notin hist.started
    /\ LET sender == GetSndAddr(tx)
           l == getListForSender(backingMap, sender)
       IN Start([NewCall EXCEPT !.pc = IF l # NoList THEN "AddTx" ELSE "Lock",
                                !.tx = tx, !.sender = sender, !.list = l])
    /\ hist' = [hist EXCEPT !.started = @ \cup {tx}, !.bulk = NoBulk, !.absent = NoAbsent]
    /\ UNCHANGED <<backingMap, lists, counter, mutex, snapshot, listVars>>

\* txMap.mutex.Lock() and the lookup under the mutex; when it finds the
\* list, the function returns and the deferred Unlock runs.
getOrAddListForSender_Lock(c) ==
    /\ c.pc = "Lock"
    /\ ~mutex
    /\ LET l == lockedLookup(backingMap, c.sender)
       IN IF l # NoList
          THEN /\ Step(c, [c EXCEPT !.pc = "AddTx", !.list = l])
               /\ mutex' = mutexUnlock(TRUE)
               /\ hist' = [hist EXCEPT !.recheckHit = TRUE]
          ELSE /\ Step(c, [c EXCEPT !.pc = "Set"])
               /\ mutex' = TRUE
               /\ UNCHANGED hist
    /\ UNCHANGED <<backingMap, lists, counter, snapshot, listVars>>

\* addSender: newTxListForSender and backingMap.Set
addSender_Set(c) ==
    /\ c.pc = "Set"
    /\ LET l == Len(lists) + 1
           lst == newTxListForSender(c.sender)
       IN /\ lists' = Append(lists, lst)
          /\ backingMap' = bsmSet(backingMap, l, lst)
          /\ Step(c, [c EXCEPT !.pc = "Increment", !.list = l])
    /\ UNCHANGED <<counter, mutex, hist, snapshot, listVars>>

\* addSender: counter.Increment; then getOrAddListForSender returns and the
\* deferred Unlock runs.
addSender_Increment(c) ==
    /\ c.pc = "Increment"
    /\ counter' = counter + 1
    /\ mutex' = mutexUnlock(mutex)
    /\ Step(c, [c EXCEPT !.pc = "AddTx"])
    /\ UNCHANGED <<backingMap, lists, hist, snapshot, listVars>>

\* The pairs of lists <<a, b>>, a the list of sender, such that from bm to
\* bm2 a went from a chunk above b's to a chunk below b's.
fellBelow(bm, bm2, sender) ==
    {<<bm[sender].list, bm[s].list>> : s \in
        {s \in LiveSenders(bm) \ {sender} :
            /\ bsmHas(bm, sender)
            /\ bm[sender].chunk > bm[s].chunk
            /\ bm2[sender].chunk < bm[s].chunk}}

\* addTx: listForSender.AddTx(tx), under the list's mutex.
addTx_AddTx(c) ==
    /\ c.pc = "AddTx"
    /\ LET res == triggerScoreChange(backingMap, c.list, listAddTx(lists[c.list], c.tx))
       IN /\ lists' = [lists EXCEPT ![c.list] = res.list]
          /\ backingMap' = res.map
          /\ hist' = [hist EXCEPT !.fell = @ \cup fellBelow(backingMap, res.map, c.sender)]
    /\ Return(c)
    /\ UNCHANGED <<counter, mutex, snapshot, listVars>>

\* removeTx, to the lookup of the sender's list: false when it is absent.
removeTx(tx) ==
    /\ LET sender == GetSndAddr(tx)
           l == getListForSender(backingMap, sender)
       IN IF l = NoList
          THEN /\ StartAndReturn
               /\ hist' = [hist EXCEPT !.onlyAdds = FALSE, !.bulk = NoBulk,
                                       !.absent = AbsentCall("removeTx", sender)]
          ELSE /\ Start([NewCall EXCEPT !.pc = "RemoveTx", !.tx = tx,
                                        !.sender = sender, !.list = l,
                                        !.absent = ~bsmHas(backingMap, sender)])
               /\ hist' = [hist EXCEPT !.onlyAdds = FALSE, !.bulk = NoBulk,
                                       !.absent = NoAbsent]
    /\ UNCHANGED <<backingMap, lists, counter, mutex, snapshot, listVars>>

\* removeTx: listForSender.RemoveTx(tx), under the list's mutex.
removeTx_RemoveTx(c) ==
    /\ c.pc = "RemoveTx"
    /\ LET res == triggerScoreChange(backingMap, c.list,
                                     listRemoveTx(lists[c.list], c.tx))
       IN /\ lists' = [lists EXCEPT ![c.list] = res.list]
          /\ backingMap' = res.map
          /\ hist' = [hist EXCEPT !.fell = @ \cup fellBelow(backingMap, res.map, c.sender)]
    /\ Step(c, [c EXCEPT !.pc = "IsEmpty", !.locked = FALSE])
    /\ UNCHANGED <<counter, mutex, snapshot, listVars>>

\* removeTx: listForSender.IsEmpty(), which reads the length without the
\* list's mutex.
removeTx_IsEmpty(c) ==
    /\ c.pc = "IsEmpty"
    /\ IF IsEmpty(lists[c.list].items)
       THEN Step(c, [c EXCEPT !.pc = "Has"])
       ELSE Return(c)
    /\ UNCHANGED <<backingMap, lists, counter, mutex, hist, snapshot, listVars>>

\* Where a goroutine goes when removeSender returns: to the next sender of
\* RemoveSendersBulk, or out of the call.
afterRemoveSender(c, removed) ==
    LET i == c.i + 1
        n == c.numRemoved + (IF removed THEN 1 ELSE 0)
    IN IF i <= Len(c.senders)
       THEN /\ Step(c, [c EXCEPT !.pc = "Has", !.i = i, !.sender = c.senders[i],
                                 !.numRemoved = n, !.took = FALSE])
            /\ UNCHANGED hist
       ELSE /\ Return(c)
            /\ hist' = IF ~c.alone THEN hist
                       ELSE [hist EXCEPT !.bulk =
                               [returned |-> TRUE,
                                senders |-> {c.senders[k] : k \in 1 .. Len(c.senders)},
                                index0 |-> c.index0, counter0 |-> c.counter0,
                                numRemoved |-> n]]

\* removeSender: backingMap.Has
removeSender_Has(c) ==
    /\ c.pc = "Has"
    /\ IF bsmHas(backingMap, c.sender)
       THEN Step(c, [c EXCEPT !.pc = "Remove"]) /\ UNCHANGED hist
       ELSE afterRemoveSender(c, FALSE)
    /\ UNCHANGED <<backingMap, lists, counter, mutex, snapshot, listVars>>

\* removeSender: backingMap.Remove
removeSender_Remove(c) ==
    /\ c.pc = "Remove"
    /\ backingMap' = bsmRemove(backingMap, c.sender)
    /\ Step(c, [c EXCEPT !.pc = "Decrement", !.took = bsmHas(backingMap, c.sender)])
    /\ UNCHANGED <<lists, counter, mutex, hist, snapshot, listVars>>

\* removeSender: counter.Decrement
removeSender_Decrement(c) ==
    /\ c.pc = "Decrement"
    /\ counter' = counter - 1
    /\ afterRemoveSender(c, TRUE)
    /\ UNCHANGED <<backingMap, lists, mutex, snapshot, listVars>>

\* The slices RemoveSendersBulk is called with: one or two senders, a sender
\* twice included.
BulkInputs == {<<s>> : s \in Senders} \cup {<<s1, s2>> : s1 \in Senders, s2 \in Senders}

\* RemoveSendersBulk, to the removeSender of the first sender.
RemoveSendersBulk(senders) ==
    /\ Start([NewCall EXCEPT !.pc = "Has", !.senders = senders, !.i = 1,
                             !.sender = senders[1],
                             !.alone = BagCardinality(running) = 0,
                             !.index0 = IF BagCardinality(running) = 0
                                        THEN backingMap ELSE <<>>,
                             !.counter0 = IF BagCardinality(running) = 0
                                          THEN counter ELSE 0])
    /\ hist' = [hist EXCEPT !.onlyAdds = FALSE, !.bulk = NoBulk, !.absent = NoAbsent]
    /\ UNCHANGED <<backingMap, lists, counter, mutex, snapshot, listVars>>

\* clear: backingMap.Clear
clear ==
    /\ Start([NewCall EXCEPT !.pc = "SetZero"])
    /\ backingMap' = bsmClear(backingMap)
    /\ hist' = [hist EXCEPT !.onlyAdds = FALSE, !.bulk = NoBulk, !.absent = NoAbsent]
    /\ UNCHANGED <<lists, counter, mutex, snapshot, listVars>>

\* clear: counter.Set(0)
clear_Set(c) ==
    /\ c.pc = "SetZero"
    /\ counter' = 0
    /\ Return(c)
    /\ UNCHANGED <<backingMap, lists, mutex, hist, snapshot, listVars>>

\* getSnapshotDescending: the items of the backing map, each asserted to be
\* a list; recorded with the scores the lists have at this moment.
getSnapshotDescending ==
    /\ StartAndReturn
    /\ \E itemsSnapshot \in bsmGetSnapshotDescending(backingMap) :
          LET listsSnapshot == [i \in 1 .. Len(itemsSnapshot) |->
                                   backingMap[itemsSnapshot[i]].list]
          IN snapshot' =
                [taken |-> TRUE,
                 order |-> listsSnapshot,
                 live |-> {backingMap[s].list : s \in LiveSenders(backingMap)},
                 scores |-> [i \in 1 .. Len(listsSnapshot) |->
                                computeScore(lists[listsSnapshot[i]].totals)]]
    /\ hist' = [hist EXCEPT !.bulk = NoBulk, !.absent = NoAbsent]
    /\ UNCHANGED <<backingMap, lists, counter, mutex, listVars>>

\* getSnapshotAscending: the lists of the backing map, lowest score first;
\* nothing of the registry changes.
getSnapshotAscending ==
    /\ StartAndReturn
    /\ hist' = [hist EXCEPT !.bulk = NoBulk, !.absent = NoAbsent]
    /\ UNCHANGED <<backingMap, lists, counter, mutex, snapshot, listVars>>

\* notifyAccountNonce, to the lookup of the sender's list: it returns when
\* the sender has none.
notifyAccountNonce(sender, nonce) ==
    /\ LET l == getListForSender(backingMap, sender)
       IN IF l = NoList
          THEN /\ StartAndReturn
               /\ hist' = [hist EXCEPT !.onlyAdds = FALSE, !.bulk = NoBulk,
                                       !.absent = AbsentCall("notifyAccountNonce", sender)]
          ELSE /\ Start([NewCall EXCEPT !.pc = "notifyAccountNonce",
                                        !.sender = sender, !.list = l, !.nonce = nonce,
                                        !.absent = ~bsmHas(backingMap, sender)])
               /\ hist' = [hist EXCEPT !.onlyAdds = FALSE, !.bulk = NoBulk,
                                       !.absent = NoAbsent]
    /\ UNCHANGED <<backingMap, lists, counter, mutex, snapshot, listVars>>

\* notifyAccountNonce: listForSender.notifyAccountNonce(nonce), under the
\* list's mutex.
notifyAccountNonce_notify(c) ==
    /\ c.pc = "notifyAccountNonce"
    /\ LET res == triggerScoreChange(backingMap, c.list,
                                     listNotifyAccountNonce(lists[c.list], c.nonce))
       IN /\ lists' = [lists EXCEPT ![c.list] = res.list]
          /\ backingMap' = res.map
          /\ hist' = [hist EXCEPT !.fell = @ \cup fellBelow(backingMap, res.map, c.sender)]
    /\ Return(c)
    /\ UNCHANGED <<counter, mutex, snapshot, listVars>>

\* A selection sweep calls copyBatchTo on a list it has from a snapshot.
callCopyBatchTo(l, withReset, batchSize) ==
    /\ Start([NewCall EXCEPT !.pc = "copyBatchTo", !.list = l,
                             !.sender = lists[l].sender,
                             !.withReset = withReset, !.batchSize = batchSize])
    /\ hist' = [hist EXCEPT !.onlyAdds = FALSE, !.bulk = NoBulk, !.absent = NoAbsent]
    /\ UNCHANGED <<backingMap, lists, counter, mutex, snapshot, listVars>>

\* copyBatchTo, under the list's mutex.
callCopyBatchTo_copy(c) ==
    /\ c.pc = "copyBatchTo"
    /\ lists' = [lists EXCEPT ![c.list] =
                    listCopyBatchTo(@, c.withReset, c.batchSize, c.batchSize)]
    /\ Return(c)
    /\ UNCHANGED <<backingMap, counter, mutex, hist, snapshot, listVars>>

\* The places at which a call is about to run an operation of its list,
\* which starts with listForSender.mutex.Lock().
ListOps == {"AddTx", "RemoveTx", "notifyAccountNonce", "copyBatchTo"}

\* The mutex of list l is held by a call.
ListLocked(l) == \E o \in Calls : o.locked /\ o.list = l

\* listForSender.mutex.Lock()
listLock(c) ==
    /\ c.pc \in ListOps
    /\ ~c.locked
    /\ ~ListLocked(c.list)
    /\ Step(c, [c EXCEPT !.locked = TRUE])
    /\ UNCHANGED <<backingMap, lists, counter, mutex, hist, snapshot, listVars>>

NextMap ==
    \/ \E tx \in TxPool : addTx(tx)
    \/ \E c \in Calls : getOrAddListForSender_Lock(c)
    \/ \E c \in Calls : addSender_Set(c)
    \/ \E c \in Calls : addSender_Increment(c)
    \/ \E c \in Calls : addTx_AddTx(c)
    \/ \E tx \in TxPool : removeTx(tx)
    \/ \E c \in Calls : removeTx_RemoveTx(c)
    \/ \E c \in Calls : removeTx_IsEmpty(c)
    \/ \E c \in Calls : removeSender_Has(c)
    \/ \E c \in Calls : removeSender_Remove(c)
    \/ \E c \in Calls : removeSender_Decrement(c)
    \/ \E senders \in BulkInputs : RemoveSendersBulk(senders)
    \/ clear
    \/ \E c \in Calls : clear_Set(c)
    \/ getSnapshotDescending

\* addTx and removeTx run one at a time: a call starts when no call is in
\* progress.
NextSeq ==
    \/ \E tx \in TxPool : BagCardinality(running) = 0 /\ addTx(tx)
    \/ \E c \in Calls : getOrAddListForSender_Lock(c)
    \/ \E c \in Calls : addSender_Set(c)
    \/ \E c \in Calls : addSender_Increment(c)
    \/ \E c \in Calls : addTx_AddTx(c)
    \/ \E tx \in TxPool : BagCardinality(running) = 0 /\ removeTx(tx)
    \/ \E c \in Calls : removeTx_RemoveTx(c)
    \/ \E c \in Calls : removeTx_IsEmpty(c)
    \/ \E c \in Calls : removeSender_Has(c)
    \/ \E c \in Calls : removeSender_Remove(c)
    \/ \E c \in Calls : removeSender_Decrement(c)

\* addTx and removeTx, interleaved.
NextAddRemove ==
    \/ \E tx \in TxPool : addTx(tx)
    \/ \E c \in Calls : getOrAddListForSender_Lock(c)
    \/ \E c \in Calls : addSender_Set(c)
    \/ \E c \in Calls : addSender_Increment(c)
    \/ \E c \in Calls : addTx_AddTx(c)
    \/ \E tx \in TxPool : removeTx(tx)
    \/ \E c \in Calls : removeTx_RemoveTx(c)
    \/ \E c \in Calls : removeTx_IsEmpty(c)
    \/ \E c \in Calls : removeSender_Has(c)
    \/ \E c \in Calls : removeSender_Remove(c)
    \/ \E c \in Calls : removeSender_Decrement(c)

\* addTx, removeTx and RemoveSendersBulk, interleaved.
NextRemove ==
    \/ \E tx \in TxPool : addTx(tx)
    \/ \E c \in Calls : getOrAddListForSender_Lock(c)
    \/ \E c \in Calls : addSender_Set(c)
    \/ \E c \in Calls : addSender_Increment(c)
    \/ \E c \in Calls : addTx_AddTx(c)
    \/ \E tx \in TxPool : removeTx(tx)
    \/ \E c \in Calls : removeTx_RemoveTx(c)
    \/ \E c \in Calls : removeTx_IsEmpty(c)
    \/ \E c \in Calls : removeSender_Has(c)
    \/ \E c \in Calls : removeSender_Remove(c)
    \/ \E c \in Calls : removeSender_Decrement(c)
    \/ \E senders \in BulkInputs : RemoveSendersBulk(senders)

\* Every operation of the registry and of its lists, the mutex of a list
\* taken in a step of its own: the calls that start, and the steps of the
\* calls in progress.
MaxLockCalls == 3

LockStarts ==
    \/ \E tx \in TxPool : calls < MaxLockCalls /\ addTx(tx)
    \/ \E tx \in TxPool : calls < MaxLockCalls /\ removeTx(tx)
    \/ \E sender \in Senders : calls < MaxLockCalls /\ RemoveSendersBulk(<<sender>>)
    \/ \E sender \in Senders, nonce \in 1 .. 2 :
          calls < MaxLockCalls /\ notifyAccountNonce(sender, nonce)
    \/ \E l \in 1 .. Len(lists), withReset \in BOOLEAN :
          calls < MaxLockCalls /\ callCopyBatchTo(l, withReset, 1)
    \/ calls < MaxLockCalls /\ clear
    \/ calls < MaxLockCalls /\ getSnapshotDescending
    \/ calls < MaxLockCalls /\ getSnapshotAscending

LockSteps ==
    \/ \E c \in Calls : getOrAddListForSender_Lock(c)
    \/ \E c \in Calls : addSender_Set(c)
    \/ \E c \in Calls : addSender_Increment(c)
    \/ \E c \in Calls : listLock(c)
    \/ \E c \in Calls : c.locked /\ addTx_AddTx(c)
    \/ \E c \in Calls : c.locked /\ removeTx_RemoveTx(c)
    \/ \E c \in Calls : removeTx_IsEmpty(c)
    \/ \E c \in Calls : removeSender_Has(c)
    \/ \E c \in Calls : removeSender_Remove(c)
    \/ \E c \in Calls : removeSender_Decrement(c)
    \/ \E c \in Calls : c.locked /\ notifyAccountNonce_notify(c)
    \/ \E c \in Calls : c.locked /\ callCopyBatchTo_copy(c)
    \/ \E c \in Calls : clear_Set(c)

NextLocks == LockStarts \/ LockSteps

vars == <<listVars, mapVars>>

Init == InitList /\ InitMap

Next == NextList

Spec == Init /\ [][Next]_vars

SpecNonce == Init /\ [][NextNonce]_vars

SpecMap == Init /\ [][NextMap]_vars

SpecSeq == Init /\ [][NextSeq]_vars

SpecRemove == Init /\ [][NextRemove]_vars

SpecAddRemove == Init /\ [][NextAddRemove]_vars

\* A goroutine that can take a step is scheduled at some time.
SpecLocks == Init /\ [][NextLocks]_vars /\ WF_vars(LockSteps)

\* ------------------------------------------- properties of one sender's list

RECURSIVE SumSeq(_)
SumSeq(ns) == IF ns = <<>> THEN 0 ELSE Head(ns) + SumSeq(Tail(ns))

SumBy(its, F(_)) == SumSeq([i \in 1 .. Len(its) |-> F(its[i].tx)])

IsSorted(its) ==
    \A i \in 1 .. Len(its) - 1 : GetNonce(its[i].tx) <= GetNonce(its[i + 1].tx)

\* C1: after every AddTx, RemoveTx and RemoveHighNonceTxs the three running
\* totals are the sums of size, gas and fee over the transactions in the list.
TotalsInvariant ==
    /\ totals.totalBytes = SumBy(items, estimateTxSize)
    /\ totals.totalGas = SumBy(items, estimateTxGas)
    /\ totals.totalFee = SumBy(items, estimateTxFee)

\* C2: the nonces of the list, front to back, are non-decreasing after every
\* operation.
SortedInvariant == IsSorted(items)

\* An AddTx that arrived out of nonce order and was placed at the front of a
\* list whose other two entries share a nonce.
SortedWitness ==
    /\ last.op = "AddTx"
    /\ Len(items) = 3
    /\ items[1].tx = last.tx
    /\ GetNonce(items[2].tx) = GetNonce(items[3].tx)
    /\ items[1].id > items[2].id

\* C3: RemoveHighNonceTxs(count) on a list of n entries leaves the first
\* n - min(count, n) entries in their order, so it removes the min(count, n)
\* entries at the tail, none of which has a lower nonce than an entry that
\* stays, and the list stays sorted.
TailEviction ==
    last.op = "RemoveHighNonceTxs" =>
        LET n == Len(prev.items)
            m == Min2(last.count, n)
        IN /\ Len(items) = n - m
           /\ items = SubSeq(prev.items, 1, n - m)
           /\ \A i \in 1 .. n - m : \A j \in n - m + 1 .. n :
                  GetNonce(prev.items[i].tx) <= GetNonce(prev.items[j].tx)
           /\ IsSorted(items)

\* A RemoveHighNonceTxs that removed some entries and left others.
TailEvictionWitness ==
    /\ last.op = "RemoveHighNonceTxs"
    /\ last.count >= 2
    /\ Len(prev.items) > last.count

\* C4: the result of RemoveHighNonceTxs(count) holds one hash per removed
\* entry, highest nonce first: min(count, n) hashes and no nil entry.
RemovedHashesExact ==
    last.op = "RemoveHighNonceTxs" =>
        LET n == Len(prev.items)
            m == Min2(last.count, n)
        IN /\ Len(last.hashes) = m
           /\ \A i \in 1 .. Len(last.hashes) : last.hashes[i] # NilHash
           /\ \A i \in 1 .. m : last.hashes[i] = TxHash(prev.items[n + 1 - i].tx)

\* C5: on a list that was not mutated since the copyBatchTo with reset, when
\* a call that had room for an entry returns 0, the batches returned since
\* the reset are, concatenated, the list's sequence.
ResumableCursor ==
    (sweep.started /\ ~sweep.mutated /\ sweep.finished) =>
        sweep.copied = TxsOf(items)

\* A finished sweep of a list longer than any batch.
ResumableCursorWitness ==
    /\ sweep.started /\ ~sweep.mutated /\ sweep.finished
    /\ Len(items) > MaxBatch
    /\ copyBatchIndex = NilElem

\* C6: copyBatchTo never returns an entry that is no longer in the list, and
\* a sweep during which entries were only removed, once finished, has
\* returned every entry that is still in the list.
CursorCoherence ==
    /\ last.op = "copyBatchTo" =>
           \A i \in 1 .. Len(last.batch) : last.batch[i] \in TxSetOf(items)
    /\ (sweep.started /\ sweep.finished /\ ~sweep.added) =>
           TxSetOf(items) \subseteq {sweep.copied[i] : i \in 1 .. Len(sweep.copied)}

\* C7: RemoveTx of a transaction that is not in the list returns false and
\* leaves the sequence, the totals and the cursor as they were.
IdempotentRemoval ==
    (last.op = "RemoveTx" /\ last.tx \notin TxSetOf(prev.items)) =>
        /\ ~last.isFound
        /\ items = prev.items
        /\ totals = prev.totals
        /\ copyBatchIndex = prev.copyBatchIndex

\* A RemoveTx of an absent transaction whose nonce an entry of the list has,
\* while the cursor rests on an entry.
IdempotentRemovalWitness ==
    /\ last.op = "RemoveTx"
    /\ last.tx \notin TxSetOf(prev.items)
    /\ \E i \in 1 .. Len(items) : GetNonce(items[i].tx) = GetNonce(last.tx)
    /\ copyBatchIndex # NilElem

AboveNonce(its, nonce) == SelectSeq(its, LAMBDA e : GetNonce(e.tx) > nonce)

\* The entries of its whose nonce is at most nonce.
UpToNonce(its, nonce) == SelectSeq(its, LAMBDA e : GetNonce(e.tx) <= nonce)

\* C12: after NotifyAccountNonce(n) the list holds no entry of nonce <= n,
\* the entries of nonce > n are all there in their order, and each running
\* total went down by the costs of the pruned entries.
StalePruning ==
    last.op = "NotifyAccountNonce" =>
        LET n == last.count
            pruned == UpToNonce(prev.items, n)
        IN /\ \A i \in 1 .. Len(items) : GetNonce(items[i].tx) > n
           /\ items = AboveNonce(prev.items, n)
           /\ totals.totalBytes = prev.totals.totalBytes - SumBy(pruned, estimateTxSize)
           /\ totals.totalGas = prev.totals.totalGas - SumBy(pruned, estimateTxGas)
           /\ totals.totalFee = prev.totals.totalFee - SumBy(pruned, estimateTxFee)

\* C13: no two entries of the list share a nonce; so after an AddTx whose
\* nonce an entry of the list had, the list holds one entry of that nonce.
UniqueNonces ==
    \A i, j \in 1 .. Len(items) :
        i # j => GetNonce(items[i].tx) # GetNonce(items[j].tx)

\* C19: RemoveTx(tx) returns true exactly when tx is in the list; it then
\* removes that entry and no other, the other entries staying in their
\* order; when it returns false the list is as it was.
RemoveTxFindsPresent ==
    last.op = "RemoveTx" =>
        /\ last.isFound <=> last.tx \in TxSetOf(prev.items)
        /\ items = SelectSeq(prev.items, LAMBDA e : e.tx # last.tx)
        /\ last.isFound => Len(items) = Len(prev.items) - 1

\* A RemoveTx that found its transaction behind another entry of the same
\* nonce, in a list with an entry of a lower nonce.
RemoveTxFindsPresentWitness ==
    /\ last.op = "RemoveTx"
    /\ last.isFound
    /\ Len(prev.items) = 3
    /\ prev.items[3].tx = last.tx
    /\ GetNonce(prev.items[2].tx) = GetNonce(last.tx)
    /\ GetNonce(prev.items[1].tx) < GetNonce(last.tx)

\* ------------------------------------------------ properties of the registry

\* No call is in progress.
Quiescent == BagCardinality(running) = 0

TxsSentBy(s) == {tx \in hist.started : GetSndAddr(tx) = s}

ListsCreatedFor(s) == {l \in 1 .. Len(lists) : lists[l].sender = s}

\* C8: when only addTx was called and every call has returned, each sender
\* some addTx named has exactly one list created for it, that list is the
\* one in the index and holds all the sender's transactions, and the counter
\* is the number of these senders (1 for one new sender).
LazyCreationRace ==
    (Quiescent /\ hist.onlyAdds) =>
        /\ \A s \in Senders : TxsSentBy(s) # {} =>
              /\ Cardinality(ListsCreatedFor(s)) = 1
              /\ bsmHas(backingMap, s)
              /\ bsmGet(backingMap, s) \in ListsCreatedFor(s)
              /\ TxSetOf(lists[bsmGet(backingMap, s)].items) = TxsSentBy(s)
        /\ counter = Cardinality({s \in Senders : TxsSentBy(s) # {}})

\* Two addTx for one new sender raced: the second found, under the mutex,
\* the list the first had published; both have returned.
LazyCreationRaceWitness ==
    /\ Quiescent /\ hist.onlyAdds /\ hist.recheckHit
    /\ Len(lists) = 1
    /\ Len(lists[1].items) = 2
    /\ counter = 1

\* C9: whenever no call is in progress the counter is the number of senders
\* in the index (and so is not negative).
CounterInvariant ==
    Quiescent =>
        /\ counter = Cardinality(LiveSenders(backingMap))
        /\ counter >= 0

EmptySenderCleanup ==
    Quiescent =>
        /\ \A l \in 1 .. Len(lists) :
              IF Len(lists[l].items) = 0
              THEN bsmGet(backingMap, lists[l].sender) # l
              ELSE bsmGet(backingMap, lists[l].sender) = l
        /\ counter = Cardinality(LiveSenders(backingMap))

\* Two transactions of alice were added and removed: the first removeTx
\* left the list non-empty, the second left it empty.
EmptySenderCleanupWitness ==
    /\ Quiescent
    /\ hist.started = {1, 3}
    /\ Len(lists) = 1
    /\ Len(lists[1].items) = 0
    /\ ~bsmHas(backingMap, "alice")
    /\ counter = 0

\* C15: a RemoveSendersBulk during which no other call ran returns the
\* number of its senders that were in the index when it started; when it
\* returns none of its senders is in the index, the entries of the other
\* senders are as they were and the counter is down by the number returned.
\* And a call that counts a sender as removed (it is at counter.Decrement)
\* took that sender out of the index itself, so of the calls that target a
\* sender at the same time one counts it.
RemoveSendersBulkCount ==
    /\ hist.bulk.returned =>
           LET b == hist.bulk
           IN /\ b.numRemoved = Cardinality(b.senders \cap LiveSenders(b.index0))
              /\ \A s \in b.senders : ~bsmHas(backingMap, s)
              /\ \A s \in Senders \ b.senders : backingMap[s] = b.index0[s]
              /\ counter = b.counter0 - b.numRemoved
    /\ \A c \in Calls : c.pc = "Decrement" => c.took

\* C17: with addTx and removeTx interleaved, once every call has returned
\* a list that holds a transaction is the list the index has under its
\* sender: no transaction is held only by a list detached from the index.
NoLostTransaction ==
    Quiescent =>
        \A l \in 1 .. Len(lists) :
            Len(lists[l].items) > 0 => bsmGet(backingMap, lists[l].sender) = l

\* ------------------------------------------------------ properties of locks

\* The places at which a call holds txMap.mutex.
MutexHeld == {"Set", "Increment"}

\* The steps the call c can take.
StepOf(c) ==
    \/ getOrAddListForSender_Lock(c)
    \/ addSender_Set(c)
    \/ addSender_Increment(c)
    \/ listLock(c)
    \/ c.locked /\ addTx_AddTx(c)
    \/ c.locked /\ removeTx_RemoveTx(c)
    \/ removeTx_IsEmpty(c)
    \/ removeSender_Has(c)
    \/ removeSender_Remove(c)
    \/ removeSender_Decrement(c)
    \/ c.locked /\ notifyAccountNonce_notify(c)
    \/ c.locked /\ callCopyBatchTo_copy(c)
    \/ clear_Set(c)

\* A call enters the path of the registry mutex in this step.
EntersMutexPath(d) ==
    /\ d.pc = "Lock"
    /\ CopiesIn(d, running') > CopiesIn(d, running)

\* A call outside the path of the registry mutex can take a step unless
\* another call holds the mutex of its own list.
OwnListOnly ==
    \A c \in Calls :
        (c.pc \notin {"Lock"} \cup MutexHeld /\ ~ENABLED StepOf(c)) =>
            \E o \in Calls : o # c /\ o.locked /\ o.list = c.list

\* C16: an addTx or removeTx whose sender is in the index when it starts
\* does not enter the path of the registry mutex (which a call enters in its
\* first step or never); and a call outside that path is held up by nothing
\* but the mutex of its own sender's list.
SenderIndependence ==
    /\ [][\A d \in BagToSet(running') :
             EntersMutexPath(d) => ~bsmHas(backingMap, d.sender)]_vars
    /\ []OwnListOnly

\* alice's addTx, alice being in the index, holds the mutex of her list
\* while bob's addTx holds the registry mutex on the lazy-creation path.
SenderIndependenceWitness ==
    /\ mutex
    /\ \E c1, c2 \in Calls :
          /\ c1.pc \in MutexHeld
          /\ c2.pc = "AddTx" /\ c2.locked
          /\ c2.sender # c1.sender
          /\ Len(lists[c2.list].items) > 0

\* No call holds a list's mutex and the registry mutex together, none waits
\* for one of the two while it holds the other or another list's; the
\* registry mutex is held exactly while one call is at a place that holds
\* it, and a list's mutex by one call at most. (An operation of the backing
\* map takes and releases the locks of the map within one step.)
LockOrder ==
    /\ \A c \in Calls :
          /\ ~(c.pc \in MutexHeld /\ c.locked)
          /\ c.pc = "Lock" => ~c.locked
          /\ c.locked => c.pc \in ListOps
    /\ mutex <=> \E c \in Calls : c.pc \in MutexHeld
    /\ \A c \in Calls : c.pc \in MutexHeld \/ c.locked => CopiesIn(c, running) = 1
    /\ \A c1, c2 \in Calls : (c1.locked /\ c2.locked /\ c1.list = c2.list) => c1 = c2
    /\ \A c1, c2 \in Calls : (c1.pc \in MutexHeld /\ c2.pc \in MutexHeld) => c1 = c2

\* While a call is in progress some call can take a step.
NoDeadlock == ~Quiescent => ENABLED LockSteps

AbsentSenderBenign ==
    /\ \A c \in Calls : ~c.absent
    /\ hist.absent.op # "none" =>
           /\ ~hist.absent.isFound
           /\ <<backingMap, lists, counter>> = hist.absent.before
           /\ ~bsmHas(backingMap, hist.absent.sender)

\* A notifyAccountNonce for a sender that is not in the index returned,
\* the other sender being in the index with a transaction.
AbsentSenderBenignWitness ==
    /\ hist.absent.op = "notifyAccountNonce"
    /\ counter = 1
    /\ \E s \in LiveSenders(backingMap) :
          /\ s # hist.absent.sender
          /\ Len(lists[bsmGet(backingMap, s)].items) > 0

====
